---- MODULE Spec2Model ----
(***************************************************************************)
(* japyc (02-compiler): translation of a Python syntax tree into the       *)
(* Japyc node tree.  JapycVisitor walks the tree; for every node it asks   *)
(* the registry (nondefaults / defaults, built in JapycVisitor.__init__)   *)
(* for the Japyc classes derived from the node's class and calls their     *)
(* create_from_node.  The constant table (JapycVisitor.constants) is       *)
(* written by JapycConst and JapycEnum and read by JapycInteger.           *)
(*                                                                         *)
(* Representation.  A syntax node is a record whose kind field is the      *)
(* name of its Python class and whose other fields are the attributes the  *)
(* code reads.  An attribute a class does not have is a field the record   *)
(* does not have; reading it raises AttributeError, as in Python.  Names   *)
(* that the code only compares or uses as dictionary keys are strings;     *)
(* the name of a called function, which the code tests with startswith     *)
(* and slices, is a sequence of characters.  A raised exception is a       *)
(* value [kind |-> "raise", exc, msg] that every caller hands upwards.     *)
(***************************************************************************)
EXTENDS Integers, Sequences, FiniteSets, TLC

VARIABLES
    constants,     \* JapycVisitor.constants: name -> integer | enum dictionary
    nondefaults,   \* JapycVisitor.nondefaults: node class -> list of Japyc classes
    defaults,      \* JapycVisitor.defaults: node class -> Japyc class
    node,          \* visit_with_remove: n, the statement of the module body in hand
    tmp,           \* visit_with_remove: tmp, what self.visit(n) returned or raised
    nres,          \* visit_with_remove: len(res), the nodes collected so far
    log,           \* the dispatches self.visit(n) made, innermost first
    declared,      \* history: the declarations that wrote into constants, in order
    pc,            \* "loop" | "visited" | "raised" | "done"; in main, see below
    ast_root,      \* main: the body of the module ast.parse returned
    japyc_root,    \* main: what JapycVisitor().visit(ast_root) returned
    emitter,       \* main: the LLVMEmitter, a record of its attributes
    pos,           \* JapycModule.emit_code: index of the node of self.body in hand
    stmt,          \* JapycFunctionDef.emit_code: index of the node of self.body in hand
    ret,           \* what the last emit_code of a statement returned or raised
    kwargs         \* emit_code of a literal on its own: the **kwargs it is called with

\* the variables of the lowering
lvars == <<ast_root, japyc_root, emitter, pos, stmt, ret, kwargs>>

vars == <<constants, nondefaults, defaults, node, tmp, nres, log, declared, pc,
          ast_root, japyc_root, emitter, pos, stmt, ret, kwargs>>

-----------------------------------------------------------------------------
(* Bounds of the model *)

\* integer literals of the input are 0 .. MaxInt
MaxInt == 1
\* a module body has at most MaxStmts statements
MaxStmts == 3

-----------------------------------------------------------------------------
(* Python values *)

None == [kind |-> "None"]

Raise(exc, msg) == [kind |-> "raise", exc |-> exc, msg |-> msg]

IsRaise(x) == x.kind = "raise"

\* hasattr(x, a)
HasAttr(x, a) == a \in DOMAIN x

\* isinstance(x, <class named k>)
IsInstance(x, k) == x.kind = k

\* what a visit or a builder hands back: its value (or exception), the
\* constant table as it left it, and the dispatches it made
Ret(r, c, l) == [res |-> r, constants |-> c, log |-> l]

\* ir.IntType(bits), ir.VoidType()
IntType(bits) == [kind |-> "IntType", width |-> bits]

VoidType == [kind |-> "VoidType"]

\* the dictionary integer_types
integer_types ==
    [t \in {"int8", "int16", "int32", "int64"} |->
        CASE t = "int8"  -> IntType(8)
          [] t = "int16" -> IntType(16)
          [] t = "int32" -> IntType(32)
          [] t = "int64" -> IntType(64)]

\* entries of the constant table: an int, or the dict of an enum
IntEntry(v) == [kind |-> "int", v |-> v]

DictEntry(d) == [kind |-> "dict", d |-> d]

-----------------------------------------------------------------------------
(* Characters and strings the code takes apart *)

StartsWith(s, p) == Len(s) >= Len(p) /\ SubSeq(s, 1, Len(p)) = p

\* s[n:]
SliceFrom(s, n) == SubSeq(s, n + 1, Len(s))

japyc_poke == <<"_", "j", "a", "p", "y", "c", "_", "p", "o", "k", "e">>

japyc_const == <<"_", "j", "a", "p", "y", "c", "_", "c", "o", "n", "s", "t">>

\* the 11 of id[11:]
PokePrefixLen == 11

\* the 128 of ord(node.value) < 128
AsciiLimit == 128

DigitValue(ch) ==
    CASE ch = "0" -> 0 [] ch = "1" -> 1 [] ch = "2" -> 2 [] ch = "3" -> 3
      [] ch = "4" -> 4 [] ch = "5" -> 5 [] ch = "6" -> 6 [] ch = "7" -> 7
      [] ch = "8" -> 8 [] ch = "9" -> 9

\* int(bits) for a string of decimal digits
RECURSIVE ParseInt(_)
ParseInt(s) ==
    IF Len(s) = 0 THEN 0
    ELSE 10 * ParseInt(SubSeq(s, 1, Len(s) - 1)) + DigitValue(s[Len(s)])

PokeBits == {<<"8">>, <<"1", "6">>, <<"3", "2">>, <<"6", "4">>}

-----------------------------------------------------------------------------
(* Nodes of the Python syntax tree (module ast) *)

\* ast.Constant with an int value
ConstantInt(n) == [kind |-> "Constant", vtype |-> "int", n |-> n]

\* ast.Constant with a str value, given as the code points of the string
ConstantStr(s) == [kind |-> "Constant", vtype |-> "str", s |-> s]

\* ast.Constant with the value None
ConstantNone == [kind |-> "Constant", vtype |-> "NoneType"]

Name(id) == [kind |-> "Name", id |-> id]

Attribute(value, attr) == [kind |-> "Attribute", value |-> value, attr |-> attr]

BinOp(left, op, right) == [kind |-> "BinOp", left |-> left, op |-> op, right |-> right]

keyword(arg, value) == [kind |-> "keyword", arg |-> arg, value |-> value]

Call(func, args, keywords) ==
    [kind |-> "Call", func |-> func, args |-> args, keywords |-> keywords]

Expr(value) == [kind |-> "Expr", value |-> value]

Return(value) == [kind |-> "Return", value |-> value]

Assign(targets, value) == [kind |-> "Assign", targets |-> targets, value |-> value]

arg(a, annotation) == [kind |-> "arg", arg |-> a, annotation |-> annotation]

FunctionDef(name, args, body, returns) ==
    [kind |-> "FunctionDef", name |-> name, args |-> [args |-> args],
     body |-> body, returns |-> returns]

ClassDef(name, decorator_list, body) ==
    [kind |-> "ClassDef", name |-> name, decorator_list |-> decorator_list,
     body |-> body]

Module(body) == [kind |-> "Module", body |-> body]

\* isinstance(x, ast.Num): a Constant whose value is a number
IsNum(x) == x.kind = "Constant" /\ x.vtype = "int"

-----------------------------------------------------------------------------
(* Nodes of the Japyc tree (nodes.py); _fields of each class *)

JapycModule(body) == [kind |-> "JapycModule", body |-> body]

JapycFunctionDef(name, args, body, return_type) ==
    [kind |-> "JapycFunctionDef", name |-> name, args |-> args, body |-> body,
     return_type |-> return_type]

\* JapycVariable(node.id): the type field is not set
JapycVariable(name) == [kind |-> "JapycVariable", name |-> name]

\* JapycVariable(a.arg, integer_types[...])
JapycVariableTyped(name, type) == [kind |-> "JapycVariable", name |-> name, type |-> type]

JapycPoke(address, value, type) ==
    [kind |-> "JapycPoke", address |-> address, value |-> value, type |-> type]

JapycFunctionCall(fn, args) == [kind |-> "JapycFunctionCall", fn |-> fn, args |-> args]

JapycInteger(value, type) == [kind |-> "JapycInteger", value |-> value, type |-> type]

JapycBinOp(op, left, right) ==
    [kind |-> "JapycBinOp", op |-> op, left |-> left, right |-> right]

JapycEnum == [kind |-> "JapycEnum"]

JapycConst == [kind |-> "JapycConst"]

-----------------------------------------------------------------------------
(* The registry: JapycVisitor.__init__ *)

\* The classes of nodes.py that have a derived_from, in the order of
\* dir(nodes) (alphabetical).  derived_from is the list of node classes;
\* iterable says whether derived_from is a tuple; a class that does not set
\* default has no default field.
japyc_classes ==
    << [name |-> "JapycBinOp", derived_from |-> <<"BinOp">>, iterable |-> FALSE,
        default |-> TRUE],
       [name |-> "JapycConst", derived_from |-> <<"Call">>, iterable |-> FALSE],
       [name |-> "JapycEnum", derived_from |-> <<"ClassDef">>, iterable |-> FALSE],
       [name |-> "JapycFunctionCall", derived_from |-> <<"Call">>, iterable |-> FALSE,
        default |-> TRUE],
       [name |-> "JapycFunctionDef", derived_from |-> <<"FunctionDef">>,
        iterable |-> FALSE, default |-> TRUE],
       [name |-> "JapycInteger",
        derived_from |-> <<"Constant", "Name", "Attribute", "Call">>,
        iterable |-> TRUE],
       [name |-> "JapycModule", derived_from |-> <<"Module">>, iterable |-> FALSE,
        default |-> TRUE],
       [name |-> "JapycPoke", derived_from |-> <<"Call">>, iterable |-> FALSE,
        default |-> FALSE],
       [name |-> "JapycVariable", derived_from |-> <<"Name">>, iterable |-> FALSE,
        default |-> TRUE] >>

\* dict.get(key, otherwise)
Get(d, key, otherwise) == IF key \in DOMAIN d THEN d[key] ELSE otherwise

\* d[key] = value
Put(d, key, value) == (key :> value) @@ d

EmptyDict == [k \in {} |-> None]

\* nondefaults after the inner loop "for node_name in node_names" from name i on
RECURSIVE AppendNondefault(_, _, _, _)
AppendNondefault(nd, c, node_names, i) ==
    IF i > Len(node_names) THEN nd
    ELSE AppendNondefault(
            Put(nd, node_names[i], Append(Get(nd, node_names[i], <<>>), c.name)),
            c, node_names, i + 1)

\* one round of "for c in japyc_classes" on the registry reg
RegisterClass(reg, c) ==
    LET node_names == c.derived_from
        default == IF c.iterable THEN FALSE
                   ELSE IF HasAttr(c, "default") THEN c.default ELSE FALSE
    IN  IF IsRaise(reg) THEN reg
        ELSE IF default
        THEN IF node_names[1] \in DOMAIN reg.defaults
             THEN Raise("JapycError", "multiple default nodes")
             ELSE [reg EXCEPT !.defaults = Put(reg.defaults, node_names[1], c.name)]
        ELSE [reg EXCEPT !.nondefaults = AppendNondefault(reg.nondefaults, c, node_names, 1)]

RECURSIVE RegisterFrom(_, _)
RegisterFrom(reg, i) ==
    IF i > Len(japyc_classes) THEN reg
    ELSE RegisterFrom(RegisterClass(reg, japyc_classes[i]), i + 1)

\* the registry JapycVisitor.__init__ builds
Registry ==
    RegisterFrom([kind |-> "registry", nondefaults |-> EmptyDict, defaults |-> EmptyDict], 1)

-----------------------------------------------------------------------------
(* The translation: JapycVisitor.visit and the create_from_node builders.   *)
(* Every operator takes the constant table c it starts from and returns     *)
(* Ret(value or exception, table afterwards, dispatches made).              *)

\* a Python list, as a value that can stand where a node or an exception can
List(items) == [kind |-> "list", items |-> items]

\* one dispatch: the node, the builders called with what each returned, the
\* outcome of the visit and the constant table after it
Dispatch(n, tried, r, c) == [node |-> n, tried |-> tried, res |-> r, constants |-> c]

Tried(cls, out) == [cls |-> cls, out |-> out]

RECURSIVE visit(_, _)
RECURSIVE generic_visit(_, _)
RECURSIVE visit_with_remove_from(_, _, _, _, _)
RECURSIVE create_from_node(_, _, _)
RECURSIVE TryPossible(_, _, _, _, _, _)

\* JapycVisitor.visit_with_remove, from element i on, with res = acc so far
visit_with_remove_from(nodes, i, acc, c, l) ==
    IF i > Len(nodes) THEN Ret(List(acc), c, l)
    ELSE LET t == visit(nodes[i], c)
         IN  IF IsRaise(t.res) THEN Ret(t.res, t.constants, l \o t.log)
             ELSE visit_with_remove_from(
                    nodes, i + 1,
                    IF t.res # None THEN Append(acc, t.res) ELSE acc,
                    t.constants, l \o t.log)

visit_with_remove(nodes, c) == visit_with_remove_from(nodes, 1, <<>>, c, <<>>)

\* JapycModule.create_from_node
JapycModule_create_from_node(n, c) ==
    LET body == visit_with_remove(n.body, c)
    IN  IF IsRaise(body.res) THEN body
        ELSE Ret(JapycModule(body.res.items), body.constants, body.log)

\* the loop "for a in node.args.args" of JapycFunctionDef.create_from_node:
\* the exception it raises, or None
RECURSIVE CheckArgs(_, _)
CheckArgs(args, i) ==
    IF i > Len(args) THEN None
    ELSE LET a == args[i]
         IN  IF a.annotation = None
             THEN Raise("JapycError", "argument is missing type annotation")
             ELSE IF ~HasAttr(a.annotation, "id")
             THEN Raise("AttributeError", "id")
             ELSE IF a.annotation.id \notin DOMAIN integer_types
             THEN Raise("JapycError", "argument has invalid simple type")
             ELSE CheckArgs(args, i + 1)

\* the lines of JapycFunctionDef.create_from_node that set return_type: the
\* type, the exception raised, or None when no branch assigns it
ReturnType(returns) ==
    IF returns = None
    THEN Raise("JapycError", "missing return type definition")
    ELSE IF IsInstance(returns, "Name")
    THEN IF returns.id \notin DOMAIN integer_types
         THEN Raise("JapycError", "invalid return type")
         ELSE IF ~HasAttr(returns, "value")
              THEN Raise("AttributeError", "value")
              ELSE integer_types[returns.value]
    ELSE IF IsInstance(returns, "Constant")
    THEN IF returns.vtype = "NoneType"
         THEN VoidType
         ELSE Raise("JapycError", "invalid return type")
    ELSE None

\* JapycFunctionDef.create_from_node
JapycFunctionDef_create_from_node(n, c) ==
    LET body == visit_with_remove(n.body, c)
        bad == CheckArgs(n.args.args, 1)
        args == [i \in 1..Len(n.args.args) |->
                    JapycVariableTyped(n.args.args[i].arg,
                                       integer_types[n.args.args[i].annotation.id])]
        return_type == ReturnType(n.returns)
    IN  IF IsRaise(body.res) THEN body
        ELSE IF bad # None THEN Ret(bad, body.constants, body.log)
        ELSE IF return_type = None
        THEN Ret(Raise("UnboundLocalError", "return_type"), body.constants, body.log)
        ELSE IF IsRaise(return_type) THEN Ret(return_type, body.constants, body.log)
        ELSE Ret(JapycFunctionDef(n.name, args, body.res.items, return_type),
                 body.constants, body.log)

\* JapycVariable.create_from_node
JapycVariable_create_from_node(n, c) == Ret(JapycVariable(n.id), c, <<>>)

\* JapycPoke.create_from_node that takes the type from the prefix length
JapycPoke_WidthFromPrefix(n, c) ==
    IF ~HasAttr(n.func, "id") THEN Ret(Raise("AttributeError", "id"), c, <<>>)
    ELSE LET id == n.func.id
             bits == SliceFrom(id, PokePrefixLen)
             address == visit(n.args[1], c)
             value == visit(n.args[2], address.constants)
         IN  IF ~StartsWith(id, japyc_poke) THEN Ret(None, c, <<>>)
             ELSE IF bits \notin PokeBits
             THEN Ret(Raise("JapycError", "invalid number of bits in poke"), c, <<>>)
             ELSE IF Len(n.args) # 2
             THEN Ret(Raise("JapycError", "poke requires exactly 2 arguments"), c, <<>>)
             ELSE IF IsRaise(address.res) THEN address
             ELSE IF IsRaise(value.res)
             THEN Ret(value.res, value.constants, address.log \o value.log)
             ELSE Ret(JapycPoke(address.res, value.res, IntType(ParseInt(SliceFrom(id, Len(id) - 1)))),
                      value.constants, address.log \o value.log)

\* JapycPoke.create_from_node
JapycPoke_create_from_node(n, c) ==
    IF ~HasAttr(n.func, "id") THEN Ret(Raise("AttributeError", "id"), c, <<>>)
    ELSE LET id == n.func.id
             bits == SliceFrom(id, PokePrefixLen)
             address == visit(n.args[1], c)
             value == visit(n.args[2], address.constants)
         IN  IF ~StartsWith(id, japyc_poke) THEN Ret(None, c, <<>>)
             ELSE IF bits \notin PokeBits
             THEN Ret(Raise("JapycError", "invalid number of bits in poke"), c, <<>>)
             ELSE IF Len(n.args) # 2
             THEN Ret(Raise("JapycError", "poke requires exactly 2 arguments"), c, <<>>)
             ELSE IF IsRaise(address.res) THEN address
             ELSE IF IsRaise(value.res)
             THEN Ret(value.res, value.constants, address.log \o value.log)
             ELSE Ret(JapycPoke(address.res, value.res, IntType(ParseInt(bits))),
                      value.constants, address.log \o value.log)

\* JapycFunctionCall.create_from_node
JapycFunctionCall_create_from_node(n, c) ==
    LET args == visit_with_remove(n.args, c)
    IN  IF IsRaise(args.res) THEN args
        ELSE IF ~HasAttr(n.func, "id")
        THEN Ret(Raise("AttributeError", "id"), args.constants, args.log)
        ELSE Ret(JapycFunctionCall(n.func.id, args.res.items), args.constants, args.log)

\* JapycInteger.create_from_node that raises for an attribute of a name the
\* constant table does not hold
JapycInteger_UnknownBaseRaises(n, c) ==
    IF IsInstance(n, "Constant")
    THEN IF n.vtype = "int" THEN Ret(JapycInteger(n.n, None), c, <<>>)
         ELSE IF n.vtype = "str"
         THEN IF Len(n.s) = 1 /\ n.s[1] < AsciiLimit
              THEN Ret(JapycInteger(n.s[1], None), c, <<>>)
              ELSE Ret(None, c, <<>>)
         ELSE Ret(None, c, <<>>)
    ELSE IF IsInstance(n, "Name")
    THEN IF n.id \in DOMAIN c
         THEN IF c[n.id].kind # "int"
              THEN Ret(Raise("JapycError", "is an enum, not a constant"), c, <<>>)
              ELSE Ret(JapycInteger(c[n.id].v, None), c, <<>>)
         ELSE Ret(None, c, <<>>)
    ELSE IF IsInstance(n, "Attribute")
    THEN IF ~IsInstance(n.value, "Name") THEN Ret(None, c, <<>>)
         ELSE IF n.value.id \notin DOMAIN c
         THEN Ret(Raise("JapycError", "is not a known enum"), c, <<>>)
         ELSE IF c[n.value.id].kind # "dict"
         THEN Ret(Raise("JapycError", "is a constant, not an enum"), c, <<>>)
         ELSE IF n.attr \notin DOMAIN c[n.value.id].d
         THEN Ret(Raise("JapycError", "is not a member of the enum"), c, <<>>)
         ELSE Ret(JapycInteger(c[n.value.id].d[n.attr], None), c, <<>>)
    ELSE Ret(None, c, <<>>)

\* JapycInteger.create_from_node that never looks a bare name up
JapycInteger_NamesAreVariables(n, c) ==
    IF IsInstance(n, "Constant")
    THEN IF n.vtype = "int" THEN Ret(JapycInteger(n.n, None), c, <<>>)
         ELSE IF n.vtype = "str"
         THEN IF Len(n.s) = 1 /\ n.s[1] < AsciiLimit
              THEN Ret(JapycInteger(n.s[1], None), c, <<>>)
              ELSE Ret(None, c, <<>>)
         ELSE Ret(None, c, <<>>)
    ELSE IF IsInstance(n, "Attribute")
    THEN IF ~IsInstance(n.value, "Name") THEN Ret(None, c, <<>>)
         ELSE IF n.value.id \notin DOMAIN c THEN Ret(None, c, <<>>)
         ELSE IF c[n.value.id].kind # "dict"
         THEN Ret(Raise("JapycError", "is a constant, not an enum"), c, <<>>)
         ELSE IF n.attr \notin DOMAIN c[n.value.id].d
         THEN Ret(Raise("JapycError", "is not a member of the enum"), c, <<>>)
         ELSE Ret(JapycInteger(c[n.value.id].d[n.attr], None), c, <<>>)
    ELSE Ret(None, c, <<>>)

\* JapycInteger.create_from_node
JapycInteger_create_from_node(n, c) ==
    IF IsInstance(n, "Constant")
    THEN IF n.vtype = "int" THEN Ret(JapycInteger(n.n, None), c, <<>>)
         ELSE IF n.vtype = "str"
         THEN IF Len(n.s) = 1 /\ n.s[1] < AsciiLimit
              THEN Ret(JapycInteger(n.s[1], None), c, <<>>)
              ELSE Ret(None, c, <<>>)
         ELSE Ret(None, c, <<>>)
    ELSE IF IsInstance(n, "Name")
    THEN IF n.id \in DOMAIN c
         THEN IF c[n.id].kind # "int"
              THEN Ret(Raise("JapycError", "is an enum, not a constant"), c, <<>>)
              ELSE Ret(JapycInteger(c[n.id].v, None), c, <<>>)
         ELSE Ret(None, c, <<>>)
    ELSE IF IsInstance(n, "Attribute")
    THEN IF ~IsInstance(n.value, "Name") THEN Ret(None, c, <<>>)
         ELSE IF n.value.id \notin DOMAIN c THEN Ret(None, c, <<>>)
         ELSE IF c[n.value.id].kind # "dict"
         THEN Ret(Raise("JapycError", "is a constant, not an enum"), c, <<>>)
         ELSE IF n.attr \notin DOMAIN c[n.value.id].d
         THEN Ret(Raise("JapycError", "is not a member of the enum"), c, <<>>)
         ELSE Ret(JapycInteger(c[n.value.id].d[n.attr], None), c, <<>>)
    ELSE Ret(None, c, <<>>)

\* a value a Python function returns, where it may raise instead
Value(v) == [kind |-> "value", value |-> v]

\* _do_op of JapycBinOp.create_from_node
do_op(op, x, y) ==
    IF op = "Mult" THEN Value(x * y)
    ELSE IF op = "Add" THEN Value(x + y)
    ELSE Raise("NotImplementedError", "operator")

\* JapycBinOp.create_from_node that folds additions only
JapycBinOp_FoldsAddOnly(n, c) ==
    LET left == visit(n.left, c)
        right == visit(n.right, left.constants)
        l == left.log \o right.log
        folded == do_op(n.op, left.res.value, right.res.value)
    IN  IF IsRaise(left.res) THEN left
        ELSE IF IsRaise(right.res) THEN Ret(right.res, right.constants, l)
        ELSE IF /\ IsInstance(left.res, "JapycInteger")
                /\ IsInstance(right.res, "JapycInteger")
                /\ n.op # "Mult"
        THEN IF IsRaise(folded) THEN Ret(folded, right.constants, l)
             ELSE Ret(JapycInteger(folded.value, None), right.constants, l)
        ELSE Ret(JapycBinOp(n.op, left.res, right.res), right.constants, l)

\* JapycBinOp.create_from_node
JapycBinOp_create_from_node(n, c) ==
    LET left == visit(n.left, c)
        right == visit(n.right, left.constants)
        l == left.log \o right.log
        folded == do_op(n.op, left.res.value, right.res.value)
    IN  IF IsRaise(left.res) THEN left
        ELSE IF IsRaise(right.res) THEN Ret(right.res, right.constants, l)
        ELSE IF IsInstance(left.res, "JapycInteger") /\ IsInstance(right.res, "JapycInteger")
        THEN IF IsRaise(folded) THEN Ret(folded, right.constants, l)
             ELSE Ret(JapycInteger(folded.value, None), right.constants, l)
        ELSE Ret(JapycBinOp(n.op, left.res, right.res), right.constants, l)

\* the loop of JapycEnum.create_from_node that starts enum_fields afresh for
\* every statement
RECURSIVE EnumFields_KeepsLast(_, _, _)
EnumFields_KeepsLast(body, i, enum_fields) ==
    IF i > Len(body) THEN DictEntry(enum_fields)
    ELSE LET enum_node == body[i]
         IN  IF ~IsInstance(enum_node, "Assign")
             THEN Raise("JapycError", "enum: not an assignment")
             ELSE IF Len(enum_node.targets) # 1
             THEN Raise("JapycError", "enum: multiple targets to assignment")
             ELSE IF ~IsInstance(enum_node.targets[1], "Name")
             THEN Raise("JapycError", "enum: not assigning to a name")
             ELSE IF ~IsNum(enum_node.value)
             THEN Raise("JapycError", "enum: not assigning a number")
             ELSE EnumFields_KeepsLast(body, i + 1,
                    Put(EmptyDict, enum_node.targets[1].id, enum_node.value.n))

\* the loop "for enum_node in node.body" of JapycEnum.create_from_node from
\* statement i on: the dictionary enum_fields, or the exception raised
RECURSIVE EnumFields(_, _, _)
EnumFields(body, i, enum_fields) ==
    IF i > Len(body) THEN DictEntry(enum_fields)
    ELSE LET enum_node == body[i]
         IN  IF ~IsInstance(enum_node, "Assign")
             THEN Raise("JapycError", "enum: not an assignment")
             ELSE IF Len(enum_node.targets) # 1
             THEN Raise("JapycError", "enum: multiple targets to assignment")
             ELSE IF ~IsInstance(enum_node.targets[1], "Name")
             THEN Raise("JapycError", "enum: not assigning to a name")
             ELSE IF ~IsNum(enum_node.value)
             THEN Raise("JapycError", "enum: not assigning a number")
             ELSE EnumFields(body, i + 1,
                             Put(enum_fields, enum_node.targets[1].id, enum_node.value.n))

\* JapycEnum.create_from_node that binds the name before it reads the body
JapycEnum_BindsFirst(n, c) ==
    IF Len(n.decorator_list) # 1 THEN Ret(None, c, <<>>)
    ELSE IF ~HasAttr(n.decorator_list[1], "id")
    THEN Ret(Raise("AttributeError", "id"), c, <<>>)
    ELSE IF n.decorator_list[1].id # "_japyc_Enum" THEN Ret(None, c, <<>>)
    ELSE LET enum_fields == EnumFields(n.body, 1, EmptyDict)
         IN  IF IsRaise(enum_fields)
             THEN Ret(enum_fields, Put(c, n.name, DictEntry(EmptyDict)), <<>>)
             ELSE Ret(JapycEnum, Put(c, n.name, enum_fields), <<>>)

\* JapycEnum.create_from_node
JapycEnum_create_from_node(n, c) ==
    IF Len(n.decorator_list) # 1 THEN Ret(None, c, <<>>)
    ELSE IF ~HasAttr(n.decorator_list[1], "id")
    THEN Ret(Raise("AttributeError", "id"), c, <<>>)
    ELSE IF n.decorator_list[1].id # "_japyc_Enum" THEN Ret(None, c, <<>>)
    ELSE LET enum_fields == EnumFields(n.body, 1, EmptyDict)
         IN  IF IsRaise(enum_fields) THEN Ret(enum_fields, c, <<>>)
             ELSE Ret(JapycEnum, Put(c, n.name, enum_fields), <<>>)

\* JapycConst.create_from_node without the test for a previous definition
JapycConst_Overwrites(n, c) ==
    IF ~HasAttr(n.func, "id") THEN Ret(Raise("AttributeError", "id"), c, <<>>)
    ELSE IF ~StartsWith(n.func.id, japyc_const) THEN Ret(None, c, <<>>)
    ELSE IF Len(n.keywords) # 1
    THEN Ret(Raise("JapycError", "const: exactly one keyword per call"), c, <<>>)
    ELSE IF ~IsNum(n.keywords[1].value)
    THEN Ret(Raise("JapycError", "const: assignment must be an integer"), c, <<>>)
    ELSE Ret(JapycConst, Put(c, n.keywords[1].arg, IntEntry(n.keywords[1].value.n)), <<>>)

\* JapycConst.create_from_node
JapycConst_create_from_node(n, c) ==
    IF ~HasAttr(n.func, "id") THEN Ret(Raise("AttributeError", "id"), c, <<>>)
    ELSE IF ~StartsWith(n.func.id, japyc_const) THEN Ret(None, c, <<>>)
    ELSE IF Len(n.keywords) # 1
    THEN Ret(Raise("JapycError", "const: exactly one keyword per call"), c, <<>>)
    ELSE IF ~IsNum(n.keywords[1].value)
    THEN Ret(Raise("JapycError", "const: assignment must be an integer"), c, <<>>)
    ELSE LET constant == n.keywords[1].arg
             value == n.keywords[1].value.n
         IN  IF constant \in DOMAIN c
             THEN Ret(Raise("JapycError", "const: previously defined"), c, <<>>)
             ELSE Ret(JapycConst, Put(c, constant, IntEntry(value)), <<>>)

\* cls.create_from_node(node, self, self.constants)
create_from_node(cls, n, c) ==
    CASE cls = "JapycModule" -> JapycModule_create_from_node(n, c)
      [] cls = "JapycFunctionDef" -> JapycFunctionDef_create_from_node(n, c)
      [] cls = "JapycVariable" -> JapycVariable_create_from_node(n, c)
      [] cls = "JapycPoke" -> JapycPoke_create_from_node(n, c)
      [] cls = "JapycFunctionCall" -> JapycFunctionCall_create_from_node(n, c)
      [] cls = "JapycInteger" -> JapycInteger_create_from_node(n, c)
      [] cls = "JapycBinOp" -> JapycBinOp_create_from_node(n, c)
      [] cls = "JapycEnum" -> JapycEnum_create_from_node(n, c)
      [] cls = "JapycConst" -> JapycConst_create_from_node(n, c)

\* generic_visit that asks the default class first
generic_visit_DefaultFirst(n, c) ==
    IF n.kind \in DOMAIN defaults
    THEN LET r == create_from_node(defaults[n.kind], n, c)
         IN  Ret(r.res, r.constants,
                 r.log \o <<Dispatch(n, <<Tried(defaults[n.kind], r.res)>>, r.res, r.constants)>>)
    ELSE TryPossible(n, Get(nondefaults, n.kind, <<>>), 1, <<>>, c, <<>>)

\* the loop "for possible_japyc_node in possible_japyc_nodes" of generic_visit
\* from candidate i on, and the lines after it
TryPossible(n, possible_japyc_nodes, i, tried, c, l) ==
    IF i <= Len(possible_japyc_nodes)
    THEN LET r == create_from_node(possible_japyc_nodes[i], n, c)
             t == Append(tried, Tried(possible_japyc_nodes[i], r.res))
         IN  IF r.res # None
             THEN Ret(r.res, r.constants,
                      l \o r.log \o <<Dispatch(n, t, r.res, r.constants)>>)
             ELSE TryPossible(n, possible_japyc_nodes, i + 1, t, r.constants, l \o r.log)
    ELSE IF n.kind \in DOMAIN defaults
         THEN LET default_japyc_node == defaults[n.kind]
              IN  LET r == create_from_node(default_japyc_node, n, c)
                      t == Append(tried, Tried(default_japyc_node, r.res))
                  IN  Ret(r.res, r.constants,
                          l \o r.log \o <<Dispatch(n, t, r.res, r.constants)>>)
         ELSE LET r == Raise("NotImplementedError", "unimplemented node")
              IN  Ret(r, c, l \o <<Dispatch(n, tried, r, c)>>)

\* JapycVisitor.generic_visit
generic_visit(n, c) == TryPossible(n, Get(nondefaults, n.kind, <<>>), 1, <<>>, c, <<>>)

\* JapycVisitor.visit_Expr
visit_Expr(n, c) ==
    LET r == visit(n.value, c)
    IN  Ret(r.res, r.constants, r.log \o <<Dispatch(n, <<>>, r.res, r.constants)>>)

\* ast.NodeVisitor.visit on a JapycVisitor: visit_<class> when the visitor
\* has such a method, generic_visit otherwise
visit(n, c) ==
    IF n.kind = "Expr" THEN visit_Expr(n, c) ELSE generic_visit(n, c)

-----------------------------------------------------------------------------
(* The syntax trees the model translates *)

Ints == 0..MaxInt

Ops == {"Add", "Mult", "Sub"}

\* "a" and "ab" and a character outside ASCII, as code points
StrA == <<97>>

StrAB == <<97, 98>>

StrNonAscii == <<233>>

Atoms ==
    {ConstantInt(i) : i \in Ints}
    \cup {ConstantStr(StrA), ConstantStr(StrAB), ConstantStr(StrNonAscii), ConstantNone}
    \cup {Name("X"), Name("E"), Name("a")}
    \cup {Attribute(Name(b), m) : b \in {"X", "E", "a"}, m \in {"RED", "GREEN", "BLUE"}}
    \cup {Attribute(Attribute(Name("E"), "RED"), "RED")}

Operands == {ConstantInt(i) : i \in Ints} \cup {Name("X"), Name("a")}

BinOps == {BinOp(l, op, r) : l \in Operands, op \in Ops, r \in Operands}

Inner == {BinOp(l, op, ConstantInt(MaxInt)) : l \in {ConstantInt(MaxInt), Name("a")}, op \in Ops}

Nested ==
    {BinOp(b, op, o) : b \in Inner, op \in {"Mult", "Sub"}, o \in {ConstantInt(MaxInt), Name("a")}}
    \cup {BinOp(Attribute(Name("E"), "RED"), "Add", b) : b \in Inner}

FuncName(id) == Name(id)

PokeSuffixes == PokeBits \cup {<<"7">>, <<>>, <<"0", "8">>}

PokeArgs ==
    { <<ConstantInt(0)>>,
      <<Name("a"), ConstantInt(MaxInt)>>,
      <<Name("X"), BinOp(Name("a"), "Mult", ConstantInt(MaxInt))>>,
      <<ConstantNone, ConstantInt(0)>>,
      <<Name("a"), ConstantInt(0), ConstantInt(0)>> }

PokeCalls == {Call(FuncName(japyc_poke \o sfx), args, <<>>) : sfx \in PokeSuffixes, args \in PokeArgs}

ConstKeywords ==
    {<<keyword("X", ConstantInt(i))>> : i \in Ints}
    \cup { <<keyword("E", ConstantInt(0))>>,
           <<keyword("X", ConstantStr(StrA))>>,
           <<keyword("X", ConstantInt(0)), keyword("E", ConstantInt(0))>>,
           <<>> }

ConstCalls ==
    {Call(FuncName(japyc_const), <<>>, kw) : kw \in ConstKeywords}
    \cup {Call(FuncName(japyc_const \o <<"a", "n", "t">>), <<ConstantInt(0)>>,
               <<keyword("X", ConstantInt(0))>>)}

f == <<"f">>

PlainCalls ==
    { Call(FuncName(f), <<>>, <<>>),
      Call(FuncName(f), <<Name("a"), Name("X")>>, <<>>),
      Call(FuncName(f), <<ConstantNone>>, <<>>),
      Call(FuncName(f), <<Call(FuncName(japyc_const), <<>>, <<keyword("X", ConstantInt(0))>>),
                          Name("X")>>, <<>>),
      Call(Attribute(Name("a"), "m"), <<>>, <<>>) }

Expressions == Atoms \cup BinOps \cup Nested \cup PokeCalls \cup ConstCalls \cup PlainCalls

Member(m, v) == Assign(<<Name(m)>>, v)

EnumBodies ==
    { <<Member("RED", ConstantInt(0)), Member("GREEN", ConstantInt(MaxInt))>>,
      <<Member("RED", ConstantInt(MaxInt))>>,
      <<Member("RED", ConstantInt(0)), Member("RED", ConstantInt(MaxInt))>>,
      <<>>,
      <<Member("RED", ConstantInt(0)), Expr(ConstantInt(0))>>,
      <<Assign(<<Name("RED"), Name("GREEN")>>, ConstantInt(0))>>,
      <<Assign(<<Attribute(Name("a"), "RED")>>, ConstantInt(0))>>,
      <<Member("RED", ConstantInt(0)), Member("GREEN", ConstantStr(StrA))>> }

ClassDefs ==
    {ClassDef(name, <<Name("_japyc_Enum")>>, body) : name \in {"E", "X"}, body \in EnumBodies}
    \cup {ClassDef("E", d, <<Member("RED", ConstantInt(0))>>) :
            d \in { <<>>, <<Name("dataclass")>>,
                    <<Name("_japyc_Enum"), Name("_japyc_Enum")>>,
                    <<Attribute(Name("a"), "deco")>> }}

ArgLists ==
    { <<>>,
      <<arg("p", Name("int64"))>>,
      <<arg("p", Name("int8")), arg("q", Name("int32"))>>,
      <<arg("p", None)>>,
      <<arg("p", Name("int16")), arg("q", Name("float"))>>,
      <<arg("p", ConstantStr(StrA))>> }

Returns ==
    { None, Name("int64"), Name("int8"), Name("float"), ConstantNone, ConstantInt(0),
      Attribute(Name("a"), "int64") }

FunctionDefs ==
    {FunctionDef("f", a, <<Expr(Name("p"))>>, r) : a \in ArgLists, r \in Returns}
    \cup {FunctionDef("f", a, b, r) :
            a \in {<<arg("p", Name("int64"))>>, <<arg("p", None)>>},
            b \in { <<>>,
                    <<Expr(BinOp(ConstantInt(0), "Sub", ConstantInt(0)))>>,
                    <<Expr(Call(FuncName(japyc_const), <<>>, <<keyword("X", ConstantInt(0))>>)),
                      Expr(Name("X"))>> },
            r \in {ConstantNone, Name("int64")}}

\* the statements a module body is made of
Statements ==
    {Expr(e) : e \in Expressions} \cup ClassDefs \cup FunctionDefs
    \cup {Return(ConstantInt(0)), Assign(<<Name("a")>>, ConstantInt(0))}

-----------------------------------------------------------------------------
(* The state machine: JapycVisitor().visit(ast_root) on a Module, one        *)
(* statement of the module body at a time                                    *)

\* the declarations of a visit that wrote into the constant table (the calls
\* JapycConst accepted, the class definitions JapycEnum accepted), in order
Writes(l) ==
    LET wrote(e) == /\ e.node.kind \in {"Call", "ClassDef"}
                    /\ e.res.kind \in {"JapycEnum", "JapycConst"}
        W == SelectSeq(l, wrote)
    IN  [i \in 1..Len(W) |-> W[i].node]

Init ==
    /\ constants = EmptyDict
    /\ nondefaults = Registry.nondefaults
    /\ defaults = Registry.defaults
    /\ node = None
    /\ tmp = None
    /\ nres = 0
    /\ log = <<>>
    /\ declared = <<>>
    /\ pc = "loop"
    /\ ast_root = <<>>
    /\ japyc_root = None
    /\ emitter = None
    /\ pos = 0
    /\ stmt = 0
    /\ ret = None
    /\ kwargs = EmptyDict

\* visit_with_remove over the module body, "tmp = self.visit(n)" for the next
\* statement n; an exception ends the translation
VisitStatement(n) ==
    /\ pc = "loop"
    /\ nres < MaxStmts
    /\ LET r == visit(n, constants)
       IN  /\ node' = n
           /\ tmp' = r.res
           /\ log' = r.log
           /\ constants' = r.constants
           /\ declared' = declared \o Writes(r.log)
           /\ pc' = IF IsRaise(r.res) THEN "raised" ELSE "visited"
    /\ UNCHANGED <<nondefaults, defaults, nres>>
    /\ UNCHANGED lvars

\* visit_with_remove, "if tmp is not None: res.append(tmp)"; n and tmp are
\* dead until the next round assigns them
AppendResult ==
    /\ pc = "visited"
    /\ nres' = IF tmp # None THEN nres + 1 ELSE nres
    /\ node' = None
    /\ tmp' = None
    /\ log' = <<>>
    /\ pc' = "loop"
    /\ UNCHANGED <<constants, nondefaults, defaults, declared>>
    /\ UNCHANGED lvars

\* the module body is exhausted: JapycModule.create_from_node returns
ModuleDone ==
    /\ pc = "loop"
    /\ pc' = "done"
    /\ UNCHANGED <<constants, nondefaults, defaults, node, tmp, nres, log, declared>>
    /\ UNCHANGED lvars

Next ==
    \/ \E n \in Statements : VisitStatement(n)
    \/ AppendResult
    \/ ModuleDone

Spec == Init /\ [][Next]_vars

-----------------------------------------------------------------------------
(* What the claims speak about *)

\* the dispatches of the visit of the statement in hand
Entries == {log[i] : i \in DOMAIN log}

\* a statement has been visited (its node was produced, or it raised)
Visited == pc \in {"visited", "raised"}

\* the Japyc nodes of a Japyc tree
RECURSIVE SubNodes(_)
SubNodes(t) ==
    LET Of(seq) == UNION {SubNodes(seq[i]) : i \in DOMAIN seq}
    IN  {t} \cup
        CASE t.kind = "JapycBinOp" -> SubNodes(t.left) \cup SubNodes(t.right)
          [] t.kind = "JapycPoke" -> SubNodes(t.address) \cup SubNodes(t.value)
          [] t.kind = "JapycFunctionCall" -> Of(t.args)
          [] t.kind = "JapycFunctionDef" -> Of(t.args) \cup Of(t.body)
          [] t.kind = "JapycModule" -> Of(t.body)
          [] OTHER -> {}

\* the Japyc nodes produced for the statement in hand
Produced == IF IsRaise(tmp) THEN {} ELSE SubNodes(tmp)

NotImplemented(msg) == Raise("NotImplementedError", msg)

SemanticError(msg) == Raise("JapycError", msg)

\* the classes asked for a node of class k: the candidates in registration
\* order, then the default
Registered(k) ==
    Get(nondefaults, k, <<>>) \o (IF k \in DOMAIN defaults THEN <<defaults[k]>> ELSE <<>>)

\* the dispatch e follows the rule of the registry
ByRegistry(e) ==
    LET all == Registered(e.node.kind)
        k == Len(e.tried)
    IN  /\ k <= Len(all)
        /\ \A i \in 1..k : e.tried[i].cls = all[i]
        /\ \A i \in 1..(k - 1) : e.tried[i].out = None
        /\ IF k > 0 /\ e.tried[k].out # None
           THEN e.res = e.tried[k].out
           ELSE /\ k = Len(all)
                /\ e.res = IF e.node.kind \in DOMAIN defaults THEN None
                           ELSE NotImplemented("unimplemented node")

\* C1 as stated: for every node the translator visits, the candidates of its
\* class are called in registration order, the first result that is not None
\* wins and ends the calls, the default is called only after every candidate
\* returned None, and with no winner and no default the visit raises
\* NotImplementedError
C1_EveryNodeByRegistry == \A e \in Entries : ByRegistry(e)

\* C1, amended: the rule holds for every node that is no Expr; the visit of an
\* Expr calls no class and is the visit of the expression it wraps
C1_DispatchByRegistry ==
    \A i \in DOMAIN log :
        IF log[i].node.kind # "Expr" THEN ByRegistry(log[i])
        ELSE /\ log[i].tried = <<>>
             /\ i > 1
             /\ log[i - 1].node = log[i].node.value
             /\ log[i].res = log[i - 1].res

\* a call whose first candidate won, and a call that fell to the default
C1_Witness ==
    /\ \E e \in Entries :
          /\ e.node.kind = "Call" /\ Len(e.tried) = 1 /\ e.res = JapycConst
    /\ \E e \in Entries :
          /\ e.node.kind = "Call" /\ Len(e.tried) = 4
          /\ e.tried[4].cls = "JapycFunctionCall" /\ e.res.kind = "JapycFunctionCall"
    /\ \E e \in Entries : e.node.kind = "Name" /\ Len(e.tried) = 1

\* the integer an operator of the language gives
OpValue(op, a, b) == IF op = "Add" THEN a + b ELSE a * b

\* C2: a binary operation + or * over two integer literals translates to the
\* JapycInteger of the sum or product, and no JapycBinOp of a produced tree has
\* two JapycInteger operands
C2_LiteralsFold ==
    /\ \A e \in Entries :
          (/\ e.node.kind = "BinOp"
           /\ e.node.op \in {"Add", "Mult"}
           /\ IsNum(e.node.left) /\ IsNum(e.node.right))
          => e.res = JapycInteger(OpValue(e.node.op, e.node.left.n, e.node.right.n), None)
    /\ \A t \in Produced :
          t.kind = "JapycBinOp"
          => ~(t.left.kind = "JapycInteger" /\ t.right.kind = "JapycInteger")

\* (1 * 1) * a: the inner product is folded, the outer one is a JapycBinOp
C2_Witness ==
    /\ Visited
    /\ \E e \in Entries :
          /\ e.node = BinOp(ConstantInt(MaxInt), "Mult", ConstantInt(MaxInt))
          /\ e.res = JapycInteger(MaxInt * MaxInt, None)
    /\ tmp.kind = "JapycBinOp" /\ tmp.left.kind = "JapycInteger"

\* the last dispatch of the visit is the one of the statement itself; every
\* dispatch before it belongs to a node below the statement
BelowRaised == \E i \in 1..(Len(log) - 1) : IsRaise(log[i].res)

\* some dispatch of the node m, made before dispatch i, ended with r
EarlierResult(i, m, r) == \E j \in 1..(i - 1) : log[j].node = m /\ log[j].res = r

\* C3: a binary operation with an operator other than + and * raises
\* NotImplementedError whatever its operands are (when no operand raised
\* first), and no JapycBinOp with another operator is produced
C3_OtherOperatorRaises ==
    /\ \A i \in DOMAIN log :
          (log[i].node.kind = "BinOp" /\ log[i].node.op \notin {"Add", "Mult"})
          => /\ IsRaise(log[i].res)
             /\ \/ log[i].res = NotImplemented("operator")
                \/ EarlierResult(i, log[i].node.left, log[i].res)
                \/ EarlierResult(i, log[i].node.right, log[i].res)
    /\ \A t \in Produced : t.kind = "JapycBinOp" => t.op \in {"Add", "Mult"}

\* the bit width an integer type name stands for
TypeWidth == [t \in {"int8", "int16", "int32", "int64"} |->
                CASE t = "int8" -> 8 [] t = "int16" -> 16 [] t = "int32" -> 32
                  [] t = "int64" -> 64]

IsIntegerTypeName(x) == x # None /\ x.kind = "Name" /\ x.id \in DOMAIN TypeWidth

AllArgsTyped(fn) ==
    \A i \in DOMAIN fn.args.args : IsIntegerTypeName(fn.args.args[i].annotation)

\* C4: a function definition whose parameters all carry an integer type and
\* whose return annotation names an integer type translates to a
\* JapycFunctionDef with that return type; with None as return annotation it
\* translates to a JapycFunctionDef with the void type
C4_TypedFunctionTranslates ==
    (Visited /\ node.kind = "FunctionDef" /\ AllArgsTyped(node) /\ ~BelowRaised)
    => /\ IsIntegerTypeName(node.returns)
          => /\ tmp.kind = "JapycFunctionDef"
             /\ tmp.return_type = IntType(TypeWidth[node.returns.id])
       /\ node.returns = ConstantNone
          => /\ tmp.kind = "JapycFunctionDef"
             /\ tmp.return_type = VoidType

\* C5: a function definition with a parameter that has no annotation, or one
\* that is no integer type, raises JapycError (when its body translated), and
\* every parameter of a produced JapycFunctionDef has an integer type of 8,
\* 16, 32 or 64 bits
C5_UntypedParameterRejected ==
    /\ (Visited /\ node.kind = "FunctionDef" /\ ~AllArgsTyped(node) /\ ~BelowRaised)
       => (IsRaise(tmp) /\ tmp.exc = "JapycError")
    /\ \A t \in Produced :
          t.kind = "JapycFunctionDef"
          => \A i \in DOMAIN t.args :
                /\ HasAttr(t.args[i], "type")
                /\ t.args[i].type.kind = "IntType"
                /\ t.args[i].type.width \in {8, 16, 32, 64}

\* the width a poke suffix names
SuffixWidth(sfx) ==
    CASE sfx = <<"8">> -> 8 [] sfx = <<"1", "6">> -> 16 [] sfx = <<"3", "2">> -> 32
      [] sfx = <<"6", "4">> -> 64

IsPokeCall(n) ==
    n.kind = "Call" /\ n.func.kind = "Name" /\ StartsWith(n.func.id, japyc_poke)

PokeSuffix(n) == SubSeq(n.func.id, Len(japyc_poke) + 1, Len(n.func.id))

\* C6: a call of _japyc_poke<suffix>: with a suffix 8, 16, 32 or 64 and two
\* arguments the result is one JapycPoke of that width over the translated
\* first and second argument (or the exception the argument raised); any
\* other suffix raises JapycError for the bits; another number of arguments
\* raises JapycError, for the arity when the suffix is valid
C6_PokeCalls ==
    \A i \in DOMAIN log :
        LET e == log[i]
            sfx == PokeSuffix(e.node)
            valid == sfx \in {<<"8">>, <<"1", "6">>, <<"3", "2">>, <<"6", "4">>}
        IN  IsPokeCall(e.node)
            => /\ (valid /\ Len(e.node.args) = 2)
                  => \/ /\ e.res.kind = "JapycPoke"
                        /\ e.res.type = IntType(SuffixWidth(sfx))
                        /\ EarlierResult(i, e.node.args[1], e.res.address)
                        /\ EarlierResult(i, e.node.args[2], e.res.value)
                     \/ /\ IsRaise(e.res)
                        /\ \/ EarlierResult(i, e.node.args[1], e.res)
                           \/ EarlierResult(i, e.node.args[2], e.res)
               /\ ~valid => e.res = SemanticError("invalid number of bits in poke")
               /\ (valid /\ Len(e.node.args) # 2)
                  => e.res = SemanticError("poke requires exactly 2 arguments")
               /\ Len(e.node.args) # 2 => (IsRaise(e.res) /\ e.res.exc = "JapycError")

\* _japyc_poke32(X, a * 1) gave a JapycPoke of 32 bits
C6_Witness ==
    /\ Visited
    /\ IsPokeCall(node.value)
    /\ PokeSuffix(node.value) = <<"3", "2">>
    /\ tmp.kind = "JapycPoke"
    /\ tmp.type = IntType(32)
    /\ tmp.value.kind = "JapycBinOp"

\* the name a declaration binds
DeclName(d) == IF d.kind = "ClassDef" THEN d.name ELSE d.keywords[1].arg

\* the declarations that bound the name x so far, as indices of the history
DeclsOf(x) == {i \in DOMAIN declared : DeclName(declared[i]) = x}

\* the declaration of x in force: the last one
LastDecl(x) == declared[CHOOSE i \in DeclsOf(x) : \A j \in DeclsOf(x) : j <= i]

IsEnumDecl(d) == d.kind = "ClassDef"

MemberName(d, k) == d.body[k].targets[1].id

MemberNames(d) == {MemberName(d, k) : k \in DOMAIN d.body}

DistinctMembers(d) ==
    \A j, k \in DOMAIN d.body : j # k => MemberName(d, j) # MemberName(d, k)

\* the statement in hand is the expression base.member
IsMemberRef == Visited /\ node.kind = "Expr" /\ node.value.kind = "Attribute"
               /\ node.value.value.kind = "Name"

RefBase == node.value.value.id

RefMember == node.value.attr

\* C7: after the declaration of an enum E with members m1 = v1, ..., mk = vk,
\* a reference E.mi translates to JapycInteger(vi), and a reference E.x to a
\* name x that is no member raises JapycError
C7_EnumMembersResolve ==
    (/\ IsMemberRef
     /\ DeclsOf(RefBase) # {}
     /\ IsEnumDecl(LastDecl(RefBase))
     /\ DistinctMembers(LastDecl(RefBase)))
    => LET E == LastDecl(RefBase)
       IN  /\ \A k \in DOMAIN E.body :
                 MemberName(E, k) = RefMember
                 => tmp = JapycInteger(E.body[k].value.n, None)
           /\ RefMember \notin MemberNames(E)
              => tmp = SemanticError("is not a member of the enum")

\* E.GREEN after E was declared with RED = 0 and GREEN = MaxInt
C7_Witness ==
    /\ IsMemberRef
    /\ RefBase = "E" /\ RefMember = "GREEN"
    /\ DeclsOf("E") # {}
    /\ IsEnumDecl(LastDecl("E"))
    /\ Len(LastDecl("E").body) = 2
    /\ tmp = JapycInteger(MaxInt, None)

\* the statement is a well-formed declaration of a named constant
IsConstDecl(n) ==
    /\ n.kind = "Expr" /\ n.value.kind = "Call" /\ n.value.func.kind = "Name"
    /\ StartsWith(n.value.func.id, japyc_const)
    /\ Len(n.value.keywords) = 1
    /\ IsNum(n.value.keywords[1].value)

\* the statement is the bare name x
IsNameRef(n) == n.kind = "Expr" /\ n.value.kind = "Name"

\* C8: the declaration of a named constant whose name is in the constant table
\* raises JapycError and leaves the table as it was; a bare name that was
\* declared once, as a constant of value v, translates to JapycInteger(v)
C8_ConstantsDeclaredOnce ==
    [][(pc = "loop" /\ pc' \in {"visited", "raised"})
       => /\ (IsConstDecl(node') /\ node'.value.keywords[1].arg \in DOMAIN constants)
             => /\ tmp' = SemanticError("const: previously defined")
                /\ constants' = constants
          /\ (/\ IsNameRef(node')
              /\ Cardinality(DeclsOf(node'.value.id)) = 1
              /\ ~IsEnumDecl(LastDecl(node'.value.id)))
             => tmp' = JapycInteger(LastDecl(node'.value.id).keywords[1].value.n, None)
      ]_vars

\* the second declaration of the constant X was rejected
C8_Witness ==
    /\ pc = "raised"
    /\ IsConstDecl(node)
    /\ node.value.keywords[1].arg = "X"
    /\ DeclsOf("X") # {}
    /\ ~IsEnumDecl(LastDecl("X"))
    /\ LastDecl("X").keywords[1].value.n # node.value.keywords[1].value.n
    /\ tmp = SemanticError("const: previously defined")

\* C9: the declaration of an enum whose name is in the constant table raises
\* JapycError, so that every name of the table was bound by exactly one
\* declaration
C9_NamesDeclaredOnce ==
    \A i, j \in DOMAIN declared :
        i # j => DeclName(declared[i]) # DeclName(declared[j])

\* C10 as stated: base.member translates to an integer only when base is a
\* declared enum that has the member; when base is no declared enum, or the
\* member is missing, the reference raises JapycError
C10_UnknownBaseIsSemanticError ==
    IsMemberRef
    => LET known == DeclsOf(RefBase) # {} /\ IsEnumDecl(LastDecl(RefBase))
       IN  /\ tmp.kind = "JapycInteger"
              => (known /\ RefMember \in MemberNames(LastDecl(RefBase)))
           /\ ~known => (IsRaise(tmp) /\ tmp.exc = "JapycError")
           /\ (known /\ RefMember \notin MemberNames(LastDecl(RefBase)))
              => (IsRaise(tmp) /\ tmp.exc = "JapycError")

\* C10, amended: when base was not declared at all, no class accepts the node
\* and the visit raises NotImplementedError; when base is a named constant, or
\* the enum lacks the member, the reference raises JapycError
C10_UnknownBaseIsUnimplemented ==
    IsMemberRef
    => LET known == DeclsOf(RefBase) # {} /\ IsEnumDecl(LastDecl(RefBase))
       IN  /\ tmp.kind = "JapycInteger"
              => (known /\ RefMember \in MemberNames(LastDecl(RefBase)))
           /\ DeclsOf(RefBase) = {} => tmp = NotImplemented("unimplemented node")
           /\ (DeclsOf(RefBase) # {} /\ ~known)
              => tmp = SemanticError("is a constant, not an enum")
           /\ (known /\ RefMember \notin MemberNames(LastDecl(RefBase)))
              => tmp = SemanticError("is not a member of the enum")

\* a.RED while an enum E is declared and a is not
C10_Witness ==
    /\ IsMemberRef
    /\ DeclsOf("E") # {} /\ IsEnumDecl(LastDecl("E"))
    /\ "RED" \in MemberNames(LastDecl("E"))
    /\ RefBase = "a" /\ RefMember = "RED"
    /\ DeclsOf("a") = {}
    /\ tmp = NotImplemented("unimplemented node")

-----------------------------------------------------------------------------
(* Lowering (emit_code of the Japyc nodes, LLVMEmitter).  The backend       *)
(* (llvmlite.ir) is a recorder: a value is a record, an instruction the      *)
(* builder is asked for is appended to the entry block of the builder's      *)
(* function.  The inputs below stay inside what the backend accepts:         *)
(* operand types agree, calls have the callee's arity, function names are    *)
(* distinct (BackendAccepts states it and is checked).                       *)

\* ir.IntType(64).as_pointer()
PointerType(pointee) == [kind |-> "PointerType", pointee |-> pointee]

\* ir.FunctionType(return_type, args)
FunctionType(return_type, args) ==
    [kind |-> "FunctionType", return_type |-> return_type, args |-> args]

\* an element of fn.args
Argument(fn, k, type) == [kind |-> "Argument", function |-> fn, index |-> k, type |-> type]

\* ir.Function(visitor.module, function_type, name=self.name)
Function(name, ftype) ==
    [kind |-> "Function", name |-> name, ftype |-> ftype,
     args |-> [k \in 1..Len(ftype.args) |-> Argument(name, k, ftype.args[k])]]

\* ir.IRBuilder(block), block the entry block of the function fn
IRBuilder(fn) == [kind |-> "IRBuilder", function |-> fn]

\* ir.Constant(int_type, self.value)
IRConstant(type, v) == [kind |-> "Constant", type |-> type, constant |-> v]

\* an instruction the builder made: add, mul, inttoptr, store, call, ret_void
Instruction(opname, operands, type) ==
    [kind |-> "Instruction", opname |-> opname, operands |-> operands, type |-> type]

\* ir.Module(name=visitor.filename): its functions in the order of creation
\* and the instructions of the entry block of each
IRModule == [kind |-> "Module", functions |-> <<>>, blocks |-> EmptyDict]

\* LLVMEmitter.__init__: no module and no function_arguments attribute yet
LLVMEmitter == [builder |-> None, functions |-> EmptyDict]

\* **kwargs of emit_code: empty, or type=t
NoKwargs == EmptyDict

TypeKwarg(t) == [type |-> t]

\* what an emit_code hands back: its value (or exception) and the
\* instructions it had the builder append
Emitted(v, ins) == [val |-> v, ins |-> ins]

\* builder.call(fn, args)
CallInstr(fn, args) ==
    [kind |-> "Instruction", opname |-> "call", callee |-> fn.name, operands |-> args,
     type |-> fn.ftype.return_type]

RECURSIVE emit_code(_, _, _)

\* JapycInteger.emit_code
JapycInteger_emit_code(n, em, kw) ==
    IF n.type = None
    THEN LET int_type == IF "type" \notin DOMAIN kw THEN IntType(64) ELSE kw.type
         IN  Emitted(IRConstant(int_type, n.value), <<>>)
    ELSE IF "type" \in DOMAIN kw
         THEN IF n.type # kw.type
              THEN Emitted(Raise("JapycError", "type mismatch"), <<>>)
              \* int_type = self.int_type: the class has no such attribute
              ELSE Emitted(Raise("AttributeError", "int_type"), <<>>)
         \* no branch assigned int_type
         ELSE Emitted(Raise("UnboundLocalError", "int_type"), <<>>)

\* JapycVariable.emit_code
JapycVariable_emit_code(n, em, kw) ==
    IF ~HasAttr(em, "function_arguments")
    THEN Emitted(Raise("AttributeError", "function_arguments"), <<>>)
    ELSE IF n.name \in DOMAIN em.function_arguments
         THEN Emitted(em.function_arguments[n.name], <<>>)
         ELSE Emitted(Raise("NotImplementedError", ""), <<>>)

\* JapycBinOp.emit_code
JapycBinOp_emit_code(n, em, kw) ==
    LET a == emit_code(n.left, em, kw)
    IN  IF IsRaise(a.val) THEN a
        ELSE LET b == emit_code(n.right, em, kw)
                 ins == a.ins \o b.ins
             IN  IF IsRaise(b.val) THEN Emitted(b.val, ins)
                 ELSE IF n.op \in {"Add", "Mult"}
                      THEN IF em.builder = None
                           THEN Emitted(Raise("AttributeError", "builder"), ins)
                           ELSE LET x == Instruction(IF n.op = "Add" THEN "add" ELSE "mul",
                                                     <<a.val, b.val>>, a.val.type)
                                IN  Emitted(x, Append(ins, x))
                      ELSE Emitted(None, ins)

\* JapycPoke.emit_code
JapycPoke_emit_code(n, em, kw) ==
    IF em.builder = None
    THEN Emitted(Raise("AttributeError", "builder"), <<>>)
    ELSE LET a == emit_code(n.address, em, TypeKwarg(IntType(64)))
         IN  IF IsRaise(a.val) THEN a
             ELSE LET addr == Instruction("inttoptr", <<a.val>>, PointerType(n.type))
                      v == emit_code(n.value, em, TypeKwarg(n.type))
                      ins == Append(a.ins, addr) \o v.ins
                  IN  IF IsRaise(v.val) THEN Emitted(v.val, ins)
                      ELSE Emitted(None,
                                   Append(ins, Instruction("store", <<v.val, addr>>, VoidType)))

\* JapycFunctionCall.emit_code, the list comprehension over
\* zip(self.args, arg_types) from pair k on
RECURSIVE EmitArgs(_, _, _, _, _, _)
EmitArgs(args, arg_types, k, em, vals, ins) ==
    IF k > Len(args) \/ k > Len(arg_types) THEN Emitted(List(vals), ins)
    ELSE LET r == emit_code(args[k], em, TypeKwarg(arg_types[k]))
         IN  IF IsRaise(r.val) THEN Emitted(r.val, ins \o r.ins)
             ELSE EmitArgs(args, arg_types, k + 1, em, Append(vals, r.val), ins \o r.ins)

\* JapycFunctionCall.emit_code that skips a call to a function it does not know
JapycFunctionCall_SkipsUnknown(n, em, kw) ==
    IF n.fn \notin DOMAIN em.functions
    THEN Emitted(None, <<>>)
    ELSE LET fn == em.functions[n.fn]
             args == EmitArgs(n.args, fn.ftype.args, 1, em, <<>>, <<>>)
         IN  IF IsRaise(args.val) THEN args
             ELSE Emitted(None, Append(args.ins, CallInstr(fn, args.val.items)))

\* JapycFunctionCall.emit_code
JapycFunctionCall_emit_code(n, em, kw) ==
    IF n.fn \notin DOMAIN em.functions
    THEN Emitted(Raise("KeyError", n.fn), <<>>)
    ELSE LET fn == em.functions[n.fn]
             args == EmitArgs(n.args, fn.ftype.args, 1, em, <<>>, <<>>)
         IN  IF IsRaise(args.val) THEN args
             ELSE IF em.builder = None
                  THEN Emitted(Raise("AttributeError", "builder"), args.ins)
                  ELSE Emitted(None, Append(args.ins, CallInstr(fn, args.val.items)))

\* JapycAST.emit_code, which JapycConst and JapycEnum inherit
JapycAST_emit_code(n, em, kw) == Emitted(None, <<>>)

\* node.emit_code(visitor, **kwargs) for the node of a statement or an operand
emit_code(n, em, kw) ==
    CASE n.kind = "JapycInteger" -> JapycInteger_emit_code(n, em, kw)
      [] n.kind = "JapycVariable" -> JapycVariable_emit_code(n, em, kw)
      [] n.kind = "JapycBinOp" -> JapycBinOp_emit_code(n, em, kw)
      [] n.kind = "JapycPoke" -> JapycPoke_emit_code(n, em, kw)
      [] n.kind = "JapycFunctionCall" -> JapycFunctionCall_emit_code(n, em, kw)
      [] n.kind \in {"JapycConst", "JapycEnum"} -> JapycAST_emit_code(n, em, kw)

-----------------------------------------------------------------------------
(* The modules main() compiles in the model of the lowering *)

g == <<"g">>

poke64 == japyc_poke \o <<"6", "4">>

poke8 == japyc_poke \o <<"8">>

\* the expression statement fn(args)
CallStmt(fn, args) == Expr(Call(FuncName(fn), args, <<>>))

\* def f(p: int64) -> None, with the three bodies
\*   _japyc_poke64(p, p + MaxInt)  |  f(p)  |  g(); p
\* and def g() -> None, with the three bodies
\*   f(0); _japyc_poke8(0, MaxInt)  |  g()  |  p
LowerDefs ==
    {FunctionDef(f, <<arg("p", Name("int64"))>>, b, ConstantNone) :
        b \in { <<CallStmt(poke64, <<Name("p"), BinOp(Name("p"), "Add", ConstantInt(MaxInt))>>)>>,
                <<CallStmt(f, <<Name("p")>>)>>,
                <<CallStmt(g, <<>>), Expr(Name("p"))>> }}
    \cup
    {FunctionDef(g, <<>>, b, ConstantNone) :
        b \in { <<CallStmt(f, <<ConstantInt(0)>>),
                  CallStmt(poke8, <<ConstantInt(0), ConstantInt(MaxInt)>>)>>,
                <<CallStmt(g, <<>>)>>,
                <<Expr(Name("p"))>> }}

\* _japyc_const(p=i)
LowerDecls ==
    {Expr(Call(FuncName(japyc_const), <<>>, <<keyword("p", ConstantInt(i))>>)) : i \in Ints}

\* statements of the module that are neither: f(0), g(), p, p + MaxInt
LowerStmts ==
    { CallStmt(f, <<ConstantInt(0)>>),
      CallStmt(g, <<>>),
      Expr(Name("p")),
      Expr(BinOp(Name("p"), "Add", ConstantInt(MaxInt))) }

LowerStatements == LowerDefs \cup LowerDecls \cup LowerStmts

\* module bodies of at most MaxStmts statements that define no function twice
Modules ==
    LET Bodies == UNION {[1..n -> LowerStatements] : n \in 0..MaxStmts}
        defs(b, name) == {k \in DOMAIN b : b[k].kind = "FunctionDef" /\ b[k].name = name}
    IN  {b \in Bodies : \A name \in {f, g} : Cardinality(defs(b, name)) <= 1}

-----------------------------------------------------------------------------
(* The state machine of main(): JapycVisitor().visit(ast_root), then         *)
(* LLVMEmitter(args.input).visit(japyc_root), one emit_code of a statement   *)
(* at a time.  pc is "main" | "translated" | "module" | "function" |         *)
(* "finished" | "raised"                                                     *)

LowerInit ==
    /\ constants = EmptyDict
    /\ nondefaults = Registry.nondefaults
    /\ defaults = Registry.defaults
    /\ node = None
    /\ tmp = None
    /\ nres = 0
    /\ log = <<>>
    /\ declared = <<>>
    /\ pc = "main"
    /\ ast_root \in Modules
    /\ japyc_root = None
    /\ emitter = None
    /\ pos = 0
    /\ stmt = 0
    /\ ret = None
    /\ kwargs = EmptyDict

\* the variables of visit_with_remove, dead in main after the translation
tvars == <<nondefaults, defaults, node, tmp, nres, log, declared>>

\* the builder appends the instructions ins to the block it is positioned at
Insert(em, ins) ==
    IF ins = <<>> THEN em
    ELSE [em EXCEPT !.module.blocks[em.builder.function] = @ \o ins]

\* japyc_root = JapycVisitor().visit(ast_root)
Translate ==
    /\ pc = "main"
    /\ LET r == visit(Module(ast_root), constants)
       IN  /\ japyc_root' = r.res
           /\ constants' = r.constants
           /\ ret' = IF IsRaise(r.res) THEN r.res ELSE None
           /\ pc' = IF IsRaise(r.res) THEN "raised" ELSE "translated"
    /\ UNCHANGED <<ast_root, emitter, pos, stmt>>
    /\ UNCHANGED tvars
    /\ UNCHANGED kwargs

\* LLVMEmitter(args.input), and JapycModule.emit_code up to its loop:
\* visitor.module = ir.Module(name=visitor.filename)
EnterModule ==
    /\ pc = "translated"
    /\ emitter' = [builder |-> LLVMEmitter.builder, functions |-> LLVMEmitter.functions,
                   module |-> IRModule]
    /\ pos' = 1
    /\ pc' = "module"
    /\ UNCHANGED <<constants, ast_root, japyc_root, stmt, ret>>
    /\ UNCHANGED tvars
    /\ UNCHANGED kwargs

\* JapycFunctionDef.emit_code up to its loop over self.body, without the
\* entry of the function in visitor.functions
EnterFunction_RegistersLate ==
    /\ pc = "module"
    /\ pos <= Len(japyc_root.body)
    /\ japyc_root.body[pos].kind = "JapycFunctionDef"
    /\ LET self == japyc_root.body[pos]
           function_type == FunctionType(self.return_type,
                                         [k \in DOMAIN self.args |-> self.args[k].type])
           fn == Function(self.name, function_type)
           names == {self.args[k].name : k \in DOMAIN self.args}
           last(a) == CHOOSE k \in DOMAIN self.args :
                          /\ self.args[k].name = a
                          /\ \A m \in DOMAIN self.args : self.args[m].name = a => m <= k
       IN  emitter' =
               [builder |-> IRBuilder(self.name),
                functions |-> emitter.functions,
                module |-> [kind |-> "Module",
                            functions |-> Append(emitter.module.functions, self.name),
                            blocks |-> Put(emitter.module.blocks, self.name, <<>>)],
                function_arguments |-> [a \in names |-> fn.args[last(a)]]]
    /\ stmt' = 1
    /\ pc' = "function"
    /\ UNCHANGED <<constants, ast_root, japyc_root, pos, ret>>
    /\ UNCHANGED tvars
    /\ UNCHANGED kwargs

\* JapycFunctionDef.emit_code up to its loop over self.body
EnterFunction ==
    /\ pc = "module"
    /\ pos <= Len(japyc_root.body)
    /\ japyc_root.body[pos].kind = "JapycFunctionDef"
    /\ LET self == japyc_root.body[pos]
           function_type == FunctionType(self.return_type,
                                         [k \in DOMAIN self.args |-> self.args[k].type])
           fn == Function(self.name, function_type)
           names == {self.args[k].name : k \in DOMAIN self.args}
           last(a) == CHOOSE k \in DOMAIN self.args :
                          /\ self.args[k].name = a
                          /\ \A m \in DOMAIN self.args : self.args[m].name = a => m <= k
       IN  emitter' =
               [builder |-> IRBuilder(self.name),
                functions |-> Put(emitter.functions, self.name, fn),
                module |-> [kind |-> "Module",
                            functions |-> Append(emitter.module.functions, self.name),
                            blocks |-> Put(emitter.module.blocks, self.name, <<>>)],
                function_arguments |-> [a \in names |-> fn.args[last(a)]]]
    /\ stmt' = 1
    /\ pc' = "function"
    /\ UNCHANGED <<constants, ast_root, japyc_root, pos, ret>>
    /\ UNCHANGED tvars
    /\ UNCHANGED kwargs

\* JapycFunctionDef.emit_code: node.emit_code(visitor, **kwargs) for the next
\* node of self.body
EmitBodyStatement ==
    /\ pc = "function"
    /\ stmt <= Len(japyc_root.body[pos].body)
    /\ LET r == emit_code(japyc_root.body[pos].body[stmt], emitter, NoKwargs)
       IN  /\ emitter' = Insert(emitter, r.ins)
           /\ ret' = r.val
           /\ IF IsRaise(r.val)
              THEN pc' = "raised" /\ stmt' = stmt
              ELSE pc' = pc /\ stmt' = stmt + 1
    /\ UNCHANGED <<constants, ast_root, japyc_root, pos>>
    /\ UNCHANGED tvars
    /\ UNCHANGED kwargs

\* JapycFunctionDef.emit_code: visitor.builder.ret_void(), and the return to
\* the loop of JapycModule.emit_code
EmitReturn ==
    /\ pc = "function"
    /\ stmt > Len(japyc_root.body[pos].body)
    /\ emitter' = Insert(emitter, <<Instruction("ret_void", <<>>, VoidType)>>)
    /\ ret' = None
    /\ pos' = pos + 1
    /\ pc' = "module"
    /\ UNCHANGED <<constants, ast_root, japyc_root, stmt>>
    /\ UNCHANGED tvars
    /\ UNCHANGED kwargs

\* JapycModule.emit_code: node.emit_code(visitor, **kwargs) for a node of
\* self.body that is no function definition
EmitModuleStatement ==
    /\ pc = "module"
    /\ pos <= Len(japyc_root.body)
    /\ japyc_root.body[pos].kind # "JapycFunctionDef"
    /\ LET r == emit_code(japyc_root.body[pos], emitter, NoKwargs)
       IN  /\ emitter' = Insert(emitter, r.ins)
           /\ ret' = r.val
           /\ IF IsRaise(r.val)
              THEN pc' = "raised" /\ pos' = pos
              ELSE pc' = pc /\ pos' = pos + 1
    /\ UNCHANGED <<constants, ast_root, japyc_root, stmt>>
    /\ UNCHANGED tvars
    /\ UNCHANGED kwargs

\* JapycModule.emit_code: return visitor.module
FinishModule ==
    /\ pc = "module"
    /\ pos > Len(japyc_root.body)
    /\ ret' = emitter.module
    /\ pc' = "finished"
    /\ UNCHANGED <<constants, ast_root, japyc_root, emitter, pos, stmt>>
    /\ UNCHANGED tvars
    /\ UNCHANGED kwargs

LowerNext ==
    \/ Translate
    \/ EnterModule
    \/ EnterFunction
    \/ EmitBodyStatement
    \/ EmitReturn
    \/ EmitModuleStatement
    \/ FinishModule

LowerSpec == LowerInit /\ [][LowerNext]_vars

\* the model stays inside what the backend accepts: the operands of an add
\* or a mul have one type, a store writes a value of the pointee type, a call
\* gives the callee arguments of its parameter types
BackendAccepts ==
    emitter # None =>
        \A h \in DOMAIN emitter.module.blocks :
            \A k \in DOMAIN emitter.module.blocks[h] :
                LET x == emitter.module.blocks[h][k]
                IN  CASE x.opname \in {"add", "mul"} ->
                             x.operands[1].type = x.operands[2].type
                      [] x.opname = "store" ->
                             x.operands[2].type = PointerType(x.operands[1].type)
                      [] x.opname = "call" ->
                             /\ x.callee \in DOMAIN emitter.functions
                             /\ Len(x.operands) = Len(emitter.functions[x.callee].ftype.args)
                             /\ \A m \in DOMAIN x.operands :
                                    x.operands[m].type = emitter.functions[x.callee].ftype.args[m]
                      [] OTHER -> TRUE

-----------------------------------------------------------------------------
(* Claims about the lowering *)

\* a statement of the body of the function in hand has just been lowered
BodyLowered == pc = "function" /\ stmt > 1

\* the syntax of that function, and of that statement
FunctionSource == ast_root[pos]

BodySource == FunctionSource.body[stmt - 1]

\* the names of the parameters of the function in hand
Params == {FunctionSource.args.args[k].arg : k \in DOMAIN FunctionSource.args.args}

\* the backend value bound to the parameter a of the function in hand
BoundTo(a) ==
    LET k == CHOOSE m \in DOMAIN FunctionSource.args.args : FunctionSource.args.args[m].arg = a
    IN  Argument(FunctionSource.name, k, integer_types[FunctionSource.args.args[k].annotation.id])

\* the last instruction of the block the builder is positioned at
LastInstruction ==
    LET b == emitter.module.blocks[emitter.builder.function] IN b[Len(b)]

\* the value the first argument of the call statement just lowered was
\* lowered to: the operand of the inttoptr of a poke, the first operand of a
\* call
FirstArgumentValue ==
    IF LastInstruction.opname = "store"
    THEN LastInstruction.operands[2].operands[1]
    ELSE LastInstruction.operands[1]

\* C11: in the body of a function with a correctly typed parameter p, a
\* reference to p (as the statement p, or as the first argument of a call
\* or a poke) lowers to the backend value bound to p, whatever the module
\* declares before the function
C11_ParameterLowersToArgument ==
    BodyLowered =>
        LET e == BodySource.value
        IN  /\ e.kind = "Name" /\ e.id \in Params
                => ret = BoundTo(e.id)
            /\ (/\ e.kind = "Call"
                /\ Len(e.args) >= 1
                /\ e.args[1].kind = "Name"
                /\ e.args[1].id \in Params)
                => FirstArgumentValue = BoundTo(e.args[1].id)

\* the next step lowers a statement: one of the body of the function in
\* hand, or one of the module that is no function definition
AboutToLower ==
    \/ pc = "function" /\ stmt <= Len(ast_root[pos].body)
    \/ pc = "module" /\ pos <= Len(ast_root) /\ ast_root[pos].kind # "FunctionDef"

\* the syntax of that statement
NextSource == IF pc = "function" THEN ast_root[pos].body[stmt] ELSE ast_root[pos]

\* the statement is a call of a function of the module
IsPlainCall(s) ==
    s.kind = "Expr" /\ s.value.kind = "Call" /\ s.value.func.id \in {f, g}

\* the module defines the function c before the statement in hand, outside
\* the function the statement belongs to
DefinedEarlier(c) ==
    \E m \in 1..(pos - 1) : ast_root[m].kind = "FunctionDef" /\ ast_root[m].name = c

\* the statement in hand belongs to the body of the function c
DefinedHere(c) == pc = "function" /\ ast_root[pos].name = c

\* the names of the functions the module defines in ast_root[1..k], in order
RECURSIVE DefinedUpTo(_)
DefinedUpTo(k) ==
    IF k = 0 THEN <<>>
    ELSE IF ast_root[k].kind = "FunctionDef"
         THEN Append(DefinedUpTo(k - 1), ast_root[k].name)
         ELSE DefinedUpTo(k - 1)

\* the functions of the backend module are those the module defines up to
\* the statement reached, in the order of the source
LoweredInOrder ==
    emitter # None =>
        emitter.module.functions =
            DefinedUpTo(IF pc = "module" THEN pos - 1
                        ELSE IF pos > Len(ast_root) THEN Len(ast_root) ELSE pos)

\* the handle the lowering of the definition of c makes
HandleOf(c) ==
    LET d == ast_root[CHOOSE m \in DOMAIN ast_root :
                          ast_root[m].kind = "FunctionDef" /\ ast_root[m].name = c]
    IN  Function(c, FunctionType(VoidType,
                                 [k \in DOMAIN d.args.args |->
                                     integer_types[d.args.args[k].annotation.id]]))

\* the block the builder of the emitter em is positioned at
BlockOf(em) == em.module.blocks[em.builder.function]

\* C12: functions are lowered in the order of the module; a call whose callee
\* is defined earlier in the module appends one call instruction to the
\* callee's handle; a call whose callee is defined later or nowhere raises
\* KeyError for the callee's name and no instruction is emitted
C12_CallsResolveInOrder ==
    [][ /\ LoweredInOrder'
        /\ (AboutToLower /\ IsPlainCall(NextSource)) =>
              LET c == NextSource.value.func.id
              IN  /\ DefinedEarlier(c) =>
                        /\ pc' # "raised"
                        /\ emitter.functions[c] = HandleOf(c)
                        /\ Len(BlockOf(emitter')) = Len(BlockOf(emitter)) + 1
                        /\ LET x == BlockOf(emitter')[Len(BlockOf(emitter'))]
                           IN  /\ x.opname = "call"
                               /\ x.callee = c
                               /\ x.type = HandleOf(c).ftype.return_type
                  /\ (~DefinedEarlier(c) /\ ~DefinedHere(c)) =>
                        /\ pc' = "raised"
                        /\ ret'.exc = "KeyError" /\ ret'.msg = c
                        /\ emitter'.module = emitter.module
      ]_vars

\* def f; f(0); g(): the call of f at module level was resolved, the call of
\* g, defined nowhere, raised KeyError
C12_Witness ==
    /\ pc = "raised"
    /\ ret.exc = "KeyError" /\ ret.msg = g
    /\ pos = 3
    /\ ast_root[1].kind = "FunctionDef" /\ ast_root[1].name = f
    /\ IsPlainCall(ast_root[2]) /\ ast_root[2].value.func.id = f
    /\ \E k \in DOMAIN emitter.module.blocks[f] :
           /\ emitter.module.blocks[f][k].opname = "call"
           /\ k = Len(emitter.module.blocks[f])

-----------------------------------------------------------------------------
(* JapycInteger.emit_code on its own: one call on a literal, typed or not,   *)
(* with or without an expected type.  pc is "literal" | "emitted" | "raised" *)

IntTypes == {IntType(8), IntType(16), IntType(32), IntType(64)}

\* the literals: the integers of the input and the code of the character "a"
Literals ==
    {JapycInteger(v, t) : v \in Ints \cup {StrA[1]}, t \in {None} \cup IntTypes}

LiteralInit ==
    /\ constants = EmptyDict
    /\ nondefaults = Registry.nondefaults
    /\ defaults = Registry.defaults
    /\ node = None
    /\ tmp = None
    /\ nres = 0
    /\ log = <<>>
    /\ declared = <<>>
    /\ pc = "literal"
    /\ ast_root = <<>>
    /\ japyc_root \in Literals
    /\ emitter = LLVMEmitter
    /\ pos = 0
    /\ stmt = 0
    /\ ret = None
    /\ kwargs \in {NoKwargs} \cup {TypeKwarg(t) : t \in IntTypes}

\* japyc_root.emit_code(emitter, **kwargs)
EmitLiteral ==
    /\ pc = "literal"
    /\ LET r == emit_code(japyc_root, emitter, kwargs)
       IN  /\ ret' = r.val
           /\ pc' = IF IsRaise(r.val) THEN "raised" ELSE "emitted"
    /\ UNCHANGED <<constants, ast_root, japyc_root, emitter, pos, stmt, kwargs>>
    /\ UNCHANGED tvars

LiteralNext == EmitLiteral

LiteralSpec == LiteralInit /\ [][LiteralNext]_vars

\* C13: an untyped literal is emitted with the expected type, or with the
\* 64-bit type when none is passed; a typed literal whose type differs from
\* the expected type raises JapycError (type mismatch); a typed literal whose
\* type is the expected type is emitted with that type
C13_LiteralTakesExpectedType ==
    pc \in {"emitted", "raised"} =>
        LET expected == "type" \in DOMAIN kwargs
        IN  /\ japyc_root.type = None =>
                  ret = IRConstant(IF expected THEN kwargs.type ELSE IntType(64),
                                   japyc_root.value)
            /\ (japyc_root.type # None /\ expected /\ japyc_root.type # kwargs.type) =>
                  ret = SemanticError("type mismatch")
            /\ (japyc_root.type # None /\ expected /\ japyc_root.type = kwargs.type) =>
                  ret = IRConstant(japyc_root.type, japyc_root.value)

\* the next step lowers a statement of the module that follows a function
\* definition and is none itself
AfterFunction ==
    /\ pc = "module"
    /\ pos <= Len(ast_root)
    /\ ast_root[pos].kind # "FunctionDef"
    /\ \E m \in 1..(pos - 1) : ast_root[m].kind = "FunctionDef"

\* C14: a statement of the module lowered after a function has been lowered
\* neither resolves a name to a parameter of that function nor emits an
\* instruction into the body of a function
C14_ScopeEndsWithFunction ==
    [][ AfterFunction =>
            /\ ret'.kind # "Argument"
            /\ emitter'.module = emitter.module
      ]_vars

\* the positions of the implicit return in a block
Returns_(b) == {k \in DOMAIN b : b[k].opname = "ret_void"}

\* a function whose lowering is over: every function of the backend module
\* but the one in hand
Finished(h) ==
    /\ h \in DOMAIN emitter.module.blocks
    /\ ~(pc = "function" /\ emitter.builder.function = h)
    /\ ~(pc = "raised" /\ pos <= Len(ast_root) /\ ast_root[pos].kind = "FunctionDef"
         /\ ast_root[pos].name = h)

\* the scope of the function in hand was entered before its body: the
\* function is registered, the builder is positioned in it, its parameters
\* are bound, and its block holds no return yet
ScopeEntered ==
    pc = "function" =>
        /\ FunctionSource.name \in DOMAIN emitter.functions
        /\ emitter.builder = IRBuilder(FunctionSource.name)
        /\ DOMAIN emitter.function_arguments = Params
        /\ Returns_(BlockOf(emitter)) = {}

\* a finished function holds exactly one return, its last instruction
ReturnIsLast ==
    emitter # None =>
        \A h \in DOMAIN emitter.module.blocks :
            Finished(h) =>
                Returns_(emitter.module.blocks[h]) = {Len(emitter.module.blocks[h])}

\* a step only appends to the block of the function created last
NoInterleaving ==
    emitter # None =>
        \A h \in DOMAIN emitter.module.blocks :
            LET old == emitter.module.blocks[h]
                new == emitter'.module.blocks[h]
            IN  /\ Len(new) >= Len(old)
                /\ SubSeq(new, 1, Len(old)) = old
                /\ new # old =>
                      h = emitter'.module.functions[Len(emitter'.module.functions)]

\* the statements of a body are lowered one after the other, and the return
\* is emitted after the last of them
BodyInOrder ==
    pc = "function" =>
        \/ pc' = "function" /\ pos' = pos /\ stmt' = stmt + 1
                            /\ stmt <= Len(FunctionSource.body)
        \/ pc' = "raised" /\ stmt <= Len(FunctionSource.body)
        \/ /\ pc' = "module" /\ pos' = pos + 1
           /\ stmt = Len(FunctionSource.body) + 1
           /\ BlockOf(emitter') = Append(BlockOf(emitter), Instruction("ret_void", <<>>, VoidType))

\* the module is returned after every function of the source was lowered
ModuleReturnedLast ==
    pc = "finished" =>
        /\ emitter.module.functions = DefinedUpTo(Len(ast_root))
        /\ \A h \in DOMAIN emitter.module.blocks : Returns_(emitter.module.blocks[h]) # {}

\* C15: functions are lowered in module order; for each, the scope is entered
\* first, then the body statements are lowered in source order, then exactly
\* one return is emitted as the last instruction of the function; the
\* instructions of two functions do not interleave; the module is returned
\* after the return of the last function
C15_LoweringOrder ==
    [][ /\ LoweredInOrder'
        /\ ScopeEntered'
        /\ BodyInOrder
        /\ NoInterleaving
        /\ ReturnIsLast'
        /\ ModuleReturnedLast'
      ]_vars

-----------------------------------------------------------------------------
(* Claims about the translation, continued *)

\* the statement is an enum declaration: a class definition with the one
\* decorator _japyc_Enum
IsEnumAttempt(n) ==
    /\ n.kind = "ClassDef"
    /\ Len(n.decorator_list) = 1
    /\ n.decorator_list[1] = Name("_japyc_Enum")

\* the statement is a named-constant declaration: a call of _japyc_const...
IsConstAttempt(n) ==
    /\ n.kind = "Expr" /\ n.value.kind = "Call" /\ n.value.func.kind = "Name"
    /\ StartsWith(n.value.func.id, japyc_const)

\* C16: an enum declaration or a named-constant declaration that is rejected
\* (JapycError) leaves the constant table as it was before the declaration
C16_FailedDeclarationKeepsTable ==
    [][ (/\ pc = "loop" /\ pc' = "raised"
         /\ IsEnumAttempt(node') \/ IsConstAttempt(node')
         /\ tmp'.exc = "JapycError")
            => constants' = constants
      ]_vars

\* with X declared, the enum E whose second body statement is no assignment
\* was rejected after its well-formed member RED
C16_Witness ==
    /\ pc = "raised"
    /\ IsEnumAttempt(node) /\ node.name = "E"
    /\ Len(node.body) = 2
    /\ node.body[1] = Member("RED", ConstantInt(0))
    /\ node.body[2].kind = "Expr"
    /\ tmp = SemanticError("enum: not an assignment")
    /\ DOMAIN constants = {"X"}

\* main has translated the module
Translated == pc \notin {"main", "literal"} /\ japyc_root.kind = "JapycModule"

\* the statement is the bare name x
IsBareName(n) == n.kind = "Expr" /\ n.value.kind = "Name"

\* the named-constant declarations of x among the statements of the module
\* before statement k
DeclaredBefore(x, k) ==
    {m \in 1..(k - 1) : /\ IsConstAttempt(ast_root[m])
                        /\ ast_root[m].value.keywords[1].arg = x}

\* what a bare name x in statement k of the module, or in the body of the
\* function that is statement k, is to translate to
Resolution(x, k) ==
    IF DeclaredBefore(x, k) = {} THEN JapycVariable(x)
    ELSE LET m == CHOOSE d \in DeclaredBefore(x, k) : TRUE
         IN  JapycInteger(ast_root[m].value.keywords[1].value.n, None)

\* C17: in the translated module a bare name of a statement, or of a function
\* body, that precedes the declaration of the constant of that name is a
\* JapycVariable, also after the declaration was translated; a bare name
\* that follows the declaration is the JapycInteger of the constant's value
C17_ResolutionFollowsOrder ==
    Translated =>
        \A k \in DOMAIN ast_root :
            /\ IsBareName(ast_root[k]) =>
                  japyc_root.body[k] = Resolution(ast_root[k].value.id, k)
            /\ ast_root[k].kind = "FunctionDef" =>
                  \A b \in DOMAIN ast_root[k].body :
                      IsBareName(ast_root[k].body[b]) =>
                          japyc_root.body[k].body[b] =
                              Resolution(ast_root[k].body[b].value.id, k)

\* p; _japyc_const(p=MaxInt); p was translated to a variable, the
\* declaration, and the literal MaxInt
C17_Witness ==
    /\ Translated
    /\ Len(ast_root) = 3
    /\ IsBareName(ast_root[1]) /\ IsConstAttempt(ast_root[2]) /\ IsBareName(ast_root[3])
    /\ japyc_root.body = <<JapycVariable("p"), JapycConst, JapycInteger(MaxInt, None)>>

\* C18: when the lowering of a function turns to the function's body the
\* function table holds the function's handle under the function's name and
\* the function's block is still empty; a call, in the body of a function,
\* of that same function does not raise, and appends one call instruction
\* to the function's handle
C18_RecursionResolves ==
    [][ /\ (pc = "module" /\ pc' = "function") =>
              LET c == ast_root[pos].name
              IN  /\ stmt' = 1
                  /\ emitter'.module.blocks[c] = <<>>
                  /\ c \in DOMAIN emitter'.functions
                  /\ emitter'.functions[c] = HandleOf(c)
        /\ (AboutToLower /\ IsPlainCall(NextSource)
                /\ DefinedHere(NextSource.value.func.id)) =>
              LET c == NextSource.value.func.id
              IN  /\ pc' # "raised"
                  /\ emitter.functions[c] = HandleOf(c)
                  /\ Len(BlockOf(emitter')) = Len(BlockOf(emitter)) + 1
                  /\ LET x == BlockOf(emitter')[Len(BlockOf(emitter'))]
                     IN  x.opname = "call" /\ x.callee = c
      ]_vars

\* the first statement of the body of f, the call f(p), was lowered to a
\* call of f in the block of f
C18_Witness ==
    /\ BodyLowered
    /\ stmt = 2
    /\ FunctionSource.name = f
    /\ IsPlainCall(BodySource) /\ BodySource.value.func.id = f
    /\ emitter.builder.function = f
    /\ LastInstruction.opname = "call" /\ LastInstruction.callee = f

====
